---- MODULE Spec2Model ----
(***************************************************************************)
(* The digest job of packages/api/src/jobs/ai/create_digest.ts.            *)
(*                                                                         *)
(* createDigestJob is an async function: several invocations can be in     *)
(* flight in one Node process, and each one runs from one await to the     *)
(* next without interruption.  An invocation is a "run"; every action      *)
(* below is the code a run executes between two awaits.  The module-level  *)
(* variable digestDefinition and the redis cache are shared by the runs.   *)
(*                                                                         *)
(* Strings the code inspects (titles, summaries, the digest title) are     *)
(* sequences of one-character strings; texts the code only passes on       *)
(* (profiles, queries) are TLA+ strings.                                   *)
(***************************************************************************)
EXTENDS Integers, Sequences, FiniteSets, TLC

\* ------------------------------------------------------------------ bounds

MaxRuns == 2          \* createDigestJob invocations in flight
MaxRanked == 7        \* items in the ranking LLM's reply (selection runs)
MaxDigestItems == 3   \* items in the ranking LLM's reply (digest runs)
MaxItemId == 2        \* library item ids the search service returns
MaxResults == 2       \* items the search service holds for one query
MaxJsonRanked == 5    \* items in the ranking LLM's reply (JSON-topic runs)
MaxNumber == 3        \* the numbers a topic can be, or can spell

\* ------------------------------------------------------- program constants

MaxSelections == 5    \* if (selected.length >= 5) break
MaxPerTopic == 2      \* if (topicCount[item.topic] <= 2)
MinSummaryLength == 100  \* item.summary.length > 100

\* ------------------------------------------------------------------ values

Runs == 1..MaxRuns
Users == {"u1", "u2"}

\* What redis GET answers for a missing key, and what `redisClient?.get`
\* evaluates to when redisClient is undefined.
Null == "<null>"
Undefined == "<undefined>"

\* JavaScript truthiness of a string-or-null-or-undefined value.
Truthy(v) == v /= Null /\ v /= Undefined /\ v /= ""

Min(a, b) == IF a < b THEN a ELSE b

RECURSIVE Flat(_)
\* Array.prototype.flat() of an array of arrays.
Flat(arrays) ==
  IF arrays = <<>> THEN <<>> ELSE Head(arrays) \o Flat(Tail(arrays))

\* The elements of s at the positions in keep, in position order:
\* Array.prototype.filter with the predicate already evaluated.
RECURSIVE Filtered(_, _, _)
Filtered(s, keep, i) ==
  IF i > Len(s) THEN <<>>
  ELSE (IF i \in keep THEN <<s[i]>> ELSE <<>>) \o Filtered(s, keep, i + 1)

\* --------------------------------------------------------- digest definition

\* The remote YAML file can change between two fetches; these are the
\* versions a fetch can return.  Only the selectors are data here: the
\* prompts are opaque to the job and stand for themselves.
DigestDefinitions ==
  [d \in {"d1", "d2"} |->
     IF d = "d1"
     THEN [name |-> "d1",
           preferenceSelectors |-> << [query |-> "q1", count |-> 2],
                                      [query |-> "q2", count |-> 1] >>,
           candidateSelectors |-> << [query |-> "q2", count |-> 3],
                                     [query |-> "q1", count |-> 3] >>]
     ELSE [name |-> "d2",
           preferenceSelectors |-> << [query |-> "q2", count |-> 3] >>,
           candidateSelectors |-> << [query |-> "q1", count |-> 1],
                                     [query |-> "q1", count |-> 3],
                                     [query |-> "q2", count |-> 2] >>]]

DefNames == DOMAIN DigestDefinitions
Queries == {"q1", "q2"}

\* ------------------------------------------------------------ library items

HtmlTags == {"<p>", "</p>"}

\* A library item: its content is a function of its id here.
LibraryItemOf(id) ==
  [id |-> id,
   title |-> <<"t">>,
   readableContent |-> <<"<p>", "x", "</p>">>]

RECURSIVE SeqsUpTo(_, _)
\* All sequences over S of length at most n.
SeqsUpTo(S, n) ==
  IF n = 0 THEN {<<>>}
  ELSE LET shorter == SeqsUpTo(S, n - 1)
       IN shorter \cup {Append(s, x) : s \in {t \in shorter : Len(t) = n - 1}, x \in S}

\* What the search index can hold: for every query, the matching items in
\* the query's sort order.  One item may match twice (the index is fed by
\* several writers) and may match several queries.
Libraries(maxId, maxLen) ==
  [Queries -> SeqsUpTo({LibraryItemOf(id) : id \in 1..maxId}, maxLen)]

\* searchLibraryItems({query, size, includeContent}, userId).libraryItems
SearchLibraryItems(library, selector, includeContent) ==
  LET hits == library[selector.query]
      page == SubSeq(hits, 1, Min(selector.count, Len(hits)))
  IN [i \in 1..Len(page) |->
        IF includeContent THEN page[i]
        ELSE [page[i] EXCEPT !.readableContent = <<>>]]

\* htmlToMarkdown: the tags go, the text stays.
HtmlToMarkdown(html) == SelectSeq(html, LAMBDA t : t \notin HtmlTags)

\* self.findIndex((t) => t.id === id), 1-based; 0 stands for -1.
FindIndex(self, id) ==
  LET hits == {i \in 1..Len(self) : self[i].id = id}
  IN IF hits = {} THEN 0 ELSE CHOOSE i \in hits : \A j \in hits : i <= j

\* A filter that drops an item only when the item before it has its id: not
\* what the code does.
DedupAdjacentOnly(items) ==
  Filtered(items, {i \in 1..Len(items) : i = 1 \/ items[i - 1].id /= items[i].id}, 1)

\* .filter((item, index, self) => index === self.findIndex((t) => t.id === item.id))
DedupById(items) ==
  Filtered(items, {i \in 1..Len(items) : i = FindIndex(items, items[i].id)}, 1)

\* What Promise.all resolves to: the result list of each selector's search.
SearchAll(selectors, library, includeContent) ==
  [k \in 1..Len(selectors) |->
     SearchLibraryItems(library, selectors[k], includeContent)]

\* getPreferencesList, from what its searches returned.
GetPreferencesList(results) == DedupById(Flat(results))

\* getCandidatesList, from what its searches returned.
GetCandidatesList(results) ==
  LET deduped == DedupById(Flat(results))
  IN [i \in 1..Len(deduped) |->
        [deduped[i] EXCEPT !.readableContent = HtmlToMarkdown(@)]]

\* -------------------------------------------------------------- JSON values

\* rankCandidates returns the parsed JSON of the LLM's reply cast to
\* RankedItem[] (line 216): nothing checks that item.topic is a string.  A
\* topic is a JSON primitive, or absent: its type, and String(topic), the
\* text it has as a property key.  Two topics are identical (===, indexOf)
\* when type and text are the same.  Arrays and objects are not modelled.
JsonString(s) == [kind |-> "string", text |-> s]
JsonNumber(n) == [kind |-> "number", text |-> ToString(n)]
JsonBoolean(b) == [kind |-> "boolean", text |-> IF b THEN "true" ELSE "false"]
JsonNull == [kind |-> "null", text |-> "null"]
JsonAbsent == [kind |-> "undefined", text |-> "undefined"]

\* The value of a count or a conversion that is no number: every `<=` and
\* every `==` with it is false.
NotANumber == -1

\* Number(s) of a string: 0 for the empty string, n for the decimal
\* spelling of a number up to MaxNumber, NaN for the other strings of the
\* model (letters and names).
StringToNumber(s) ==
  IF s = "" THEN 0
  ELSE IF \E n \in 0..MaxNumber : ToString(n) = s
       THEN CHOOSE n \in 0..MaxNumber : ToString(n) = s
       ELSE NotANumber

\* ToNumber of a number, a boolean or a string.
ToNumber(v) ==
  IF v.kind = "boolean" THEN (IF v.text = "true" THEN 1 ELSE 0)
  ELSE StringToNumber(v.text)

\* a == b, JavaScript's loose equality, of two topics.
LooseEquals(a, b) ==
  LET nullish == {"null", "undefined"}
  IN IF a.kind = b.kind THEN a = b
     ELSE IF a.kind \in nullish \/ b.kind \in nullish
          THEN a.kind \in nullish /\ b.kind \in nullish
          ELSE ToNumber(a) /= NotANumber /\ ToNumber(a) = ToNumber(b)

\* ------------------------------------------------------------- ranked items

\* Own properties aside, `topicCount[topic]` on an object literal finds what
\* Object.prototype holds under these names: a function or an object, which
\* is truthy and makes `(topicCount[topic] || 0) + 1` a string, not a number.
ObjectPrototypeKeys ==
  {"constructor", "toString", "valueOf", "hasOwnProperty", "isPrototypeOf",
   "propertyIsEnumerable", "toLocaleString", "__proto__",
   "__defineGetter__", "__defineSetter__", "__lookupGetter__",
   "__lookupSetter__"}

\* (topicCount[item.topic] || 0) + 1: topicCount is keyed by String(topic).
NextTopicCount(topicCount, topic) ==
  IF topic.text \in ObjectPrototypeKeys THEN NotANumber
  ELSE IF topic.text \in DOMAIN topicCount THEN topicCount[topic.text] + 1
  ELSE 1

\* if (selected.length >= 5) break
SelectionFull(selected) == Len(selected) >= MaxSelections

\* A limit of one item per topic: not what the code does.
WithinTopicLimitOfOne(count) == count /= NotANumber /\ count < MaxPerTopic

\* if (topicCount[item.topic] <= 2)
WithinTopicLimit(count) == count /= NotANumber /\ count <= MaxPerTopic

\* The first loop of chooseRankedSelections from position i on: the walk in
\* rank order, with what it has selected so far.
RECURSIVE RankWalk(_, _, _, _, _)
RankWalk(rankedCandidates, i, selected, rankedTopics, topicCount) ==
  IF i > Len(rankedCandidates) \/ SelectionFull(selected)
  THEN [selected |-> selected, rankedTopics |-> rankedTopics]
  ELSE LET item == rankedCandidates[i]
           count == NextTopicCount(topicCount, item.topic)
           counted == [t \in DOMAIN topicCount \cup {item.topic.text} |->
                         IF t = item.topic.text THEN count ELSE topicCount[t]]
           \* rankedTopics.indexOf(item.topic) === -1
           unseen == \A k \in 1..Len(rankedTopics) : rankedTopics[k] /= item.topic
       IN IF WithinTopicLimit(count)
          THEN RankWalk(rankedCandidates, i + 1, Append(selected, item),
                        IF unseen THEN Append(rankedTopics, item.topic)
                        ELSE rankedTopics,
                        counted)
          ELSE RankWalk(rankedCandidates, i + 1, selected, rankedTopics, counted)

\* The second loop: for each topic in rankedTopics order, the selected items
\* whose topic == that topic.
RECURSIVE GroupByTopic(_, _)
GroupByTopic(selected, rankedTopics) ==
  IF rankedTopics = <<>> THEN <<>>
  ELSE SelectSeq(selected, LAMBDA item : LooseEquals(item.topic, Head(rankedTopics)))
       \o GroupByTopic(selected, Tail(rankedTopics))

\* const topicCount = {} as Record<string, number>
EmptyTopicCount == [t \in {} |-> 0]

\* chooseRankedSelections
ChooseRankedSelections(rankedCandidates) ==
  LET walk == RankWalk(rankedCandidates, 1, <<>>, <<>>, EmptyTopicCount)
  IN GroupByTopic(walk.selected, walk.rankedTopics)

\* ------------------------------------------------ summaries, speech, title

\* summaries.forEach((summary, index) => (rankedCandidates[index].summary = summary))
\* With more summaries than items the assignment to rankedCandidates[index]
\* throws a TypeError, after the items have had their summaries.  An object
\* that is in the array twice holds the summary assigned to it last.
AssignSummaries(rankedCandidates, summaries) ==
  LET n == Min(Len(rankedCandidates), Len(summaries))
      Last(ref) ==
        LET at == {k \in 1..n : rankedCandidates[k].ref = ref}
        IN CHOOSE k \in at : \A j \in at : j <= k
  IN [threw |-> Len(summaries) > Len(rankedCandidates),
      rankedCandidates |->
        [i \in 1..Len(rankedCandidates) |->
           IF \E k \in 1..n : rankedCandidates[k].ref = rankedCandidates[i].ref
           THEN [rankedCandidates[i] EXCEPT
                   !.summary = summaries[Last(rankedCandidates[i].ref)]]
           ELSE rankedCandidates[i]]]

\* The items of rankedCandidates after summarizeItems has written the
\* summaries into the selected ones: both arrays hold the same objects.
Aliased(rankedCandidates, summarized) ==
  [i \in 1..Len(rankedCandidates) |->
     LET same == {k \in 1..Len(summarized) :
                    summarized[k].ref = rankedCandidates[i].ref}
     IN IF same = {} THEN rankedCandidates[i]
        ELSE summarized[CHOOSE k \in same : TRUE]]

\* A filter that keeps a summary of exactly 100 characters: not what the
\* code does.
FilterSummariesAtLeast(summaries) ==
  SelectSeq(summaries, LAMBDA item : Len(item.summary) >= MinSummaryLength)

\* summaries.filter((item) => item.summary.length > 100)
FilterSummaries(summaries) ==
  SelectSeq(summaries, LAMBDA item : Len(item.summary) > MinSummaryLength)

\* converter.makeHtml(markdown): showdown wraps the text in a paragraph.
MakeHtml(markdown) == <<"<p>">> \o markdown \o <<"</p>">>

\* htmlToSpeechFile({content, options: {}}): the artifact of one text.
HtmlToSpeechFile(html) == [content |-> html, options |-> "{}"]

\* generateSpeechFiles
GenerateSpeechFiles(rankedItems) ==
  [i \in 1..Len(rankedItems) |-> HtmlToSpeechFile(MakeHtml(rankedItems[i].summary))]

TitlePrefix ==
  <<"O", "m", "n", "i", "v", "o", "r", "e", " ",
    "d", "i", "g", "e", "s", "t", ":", " ">>

RECURSIVE Join(_, _)
\* Array.prototype.join(separator) of an array of strings.
Join(strings, separator) ==
  IF strings = <<>> THEN <<>>
  ELSE IF Len(strings) = 1 THEN strings[1]
  ELSE strings[1] \o separator \o Join(Tail(strings), separator)

\* generateTitle
GenerateTitle(selections) ==
  TitlePrefix \o
  Join([i \in 1..Len(selections) |-> selections[i].libraryItem.title], <<",">>)

\* A digest titled by the filtered selection: not what the code does.
BuildDigestTitledByFiltered(id, summaries) ==
  LET filteredSummaries == FilterSummaries(summaries)
  IN [id |-> id,
      title |-> GenerateTitle(filteredSummaries),
      content |-> "content",
      urlsToAudio |-> <<>>,
      jobState |-> "completed",
      speechFiles |-> GenerateSpeechFiles(filteredSummaries)]

\* Lines 326-337 of createDigestJob: the digest built from the summarized
\* selection.  uuid() is a fresh value per call: the id is the run's own.
BuildDigest(id, summaries) ==
  LET filteredSummaries == FilterSummaries(summaries)
      speechFiles == GenerateSpeechFiles(filteredSummaries)
      title == GenerateTitle(summaries)
  IN [id |-> id,
      title |-> title,
      content |-> "content",
      urlsToAudio |-> <<>>,
      jobState |-> "completed",
      speechFiles |-> speechFiles]

\* -------------------------------------------------------------------- state

VARIABLES
  promptFileUrl,     \* process.env.PROMPT_FILE_URL is set
  redisClient,       \* redisDataSource.redisClient is defined
  digestDefinition,  \* the module-level `let digestDefinition`
  cache,             \* redis: user id -> the value under `userProfile:<id>`
  digests,           \* the digest store: what writeDigest has written, in order
  pc,                \* per run: the await it is suspended at
  jobData,           \* per run: jobData.userId
  searching,         \* per run: the selectors of the searches it awaits
  searchResults,     \* per run: what Promise.all resolved to (lines 79, 113)
  candidates,        \* per run: createDigestJob's `candidates`
  existingProfile,   \* per run: findOrCreateUserProfile's `existingProfile`
  preferences,       \* per run: findOrCreateUserProfile's `preferences`
  profile,           \* per run: findOrCreateUserProfile's `profile`
  userProfile,       \* per run: createDigestJob's `userProfile`
  rankedCandidates,  \* per run: createDigestJob's `rankedCandidates`
  selections,        \* per run: `selections`, and `summaries` (the same array)
  digest,            \* per run: the `digest` handed to writeDigest
  \* History, read by the properties only:
  fetched,           \* per run: the definition its own fetch returned
  defsRead,          \* per run: the definitions its reads of digestDefinition saw
  stepsDone,         \* per run: the steps that have returned normally
  profileOps,        \* per run: what its findOrCreateUserProfile call has done
  settled,           \* per user: a call for the user has returned, and redis
                     \* has executed no SET of the user's key since
  sequential,        \* per run: its user was settled when redis ran its GET
  lastWrite          \* per user: the last SET redis executed for the user's
                     \* key, if any: <<[run, text]>>

vars ==
  <<promptFileUrl, redisClient, digestDefinition, cache, digests, pc, jobData,
    searching, searchResults, candidates, existingProfile, preferences, profile, userProfile,
    rankedCandidates, selections, digest, fetched, defsRead, stepsDone,
    profileOps, settled, sequential, lastWrite>>

envVars == <<promptFileUrl, redisClient>>
searchVars == <<searching, searchResults, candidates, preferences>>
profileVars == <<existingProfile, profile, userProfile>>
rankVars == <<rankedCandidates, selections, digest>>
callHistory == <<profileOps, settled, sequential, lastWrite>>

AllSteps ==
  {"fetchDigestDefinition", "getCandidatesList", "findOrCreateUserProfile",
   "rankCandidates", "chooseRankedSelections", "summarizeItems",
   "filterSummaries", "generateSpeechFiles"}

\* The awaits of createDigestJob and of the functions it calls.
AwaitPoints ==
  {"fetchDigestDefinition", "getCandidatesList", "redisGet",
   "getPreferencesList", "createUserProfile", "redisSet", "redisSetDone",
   "rankCandidates", "summarizeItems", "writeDigest"}

\* The module is loaded and no job has run.  redis outlives the process: a
\* user's key holds nothing, or the profile an earlier process wrote.
Init ==
  /\ promptFileUrl \in BOOLEAN
  /\ redisClient \in BOOLEAN
  /\ digestDefinition = Undefined
  /\ cache \in [Users -> {Null, "p0"}]
  /\ digests = <<>>
  /\ pc = [r \in Runs |-> "idle"]
  /\ jobData = [r \in Runs |-> [userId |-> Undefined]]
  /\ searching = [r \in Runs |-> <<>>]
  /\ searchResults = [r \in Runs |-> <<>>]
  /\ candidates = [r \in Runs |-> <<>>]
  /\ existingProfile = [r \in Runs |-> Undefined]
  /\ preferences = [r \in Runs |-> <<>>]
  /\ profile = [r \in Runs |-> Undefined]
  /\ userProfile = [r \in Runs |-> Undefined]
  /\ rankedCandidates = [r \in Runs |-> <<>>]
  /\ selections = [r \in Runs |-> <<>>]
  /\ digest = [r \in Runs |-> <<>>]
  /\ fetched = [r \in Runs |-> Undefined]
  /\ defsRead = [r \in Runs |-> {}]
  /\ stepsDone = [r \in Runs |-> {}]
  /\ profileOps = [r \in Runs |-> {}]
  /\ settled = [u \in Users |-> FALSE]
  /\ sequential = [r \in Runs |-> FALSE]
  /\ lastWrite = [u \in Users |-> <<>>]

\* ------------------------------------------------------------------ actions

\* The job runner calls createDigestJob(jobData): the run enters
\* fetchDigestDefinition, which throws when PROMPT_FILE_URL is not set and
\* otherwise awaits axios.get.
CreateDigestJob(r, userId) ==
  /\ pc[r] = "idle"
  /\ jobData' = [jobData EXCEPT ![r] = [userId |-> userId]]
  /\ pc' = [pc EXCEPT ![r] = IF promptFileUrl THEN "fetchDigestDefinition"
                             ELSE "failed"]
  /\ UNCHANGED <<envVars, digestDefinition, cache, digests, searchVars,
                 profileVars, rankVars, fetched, defsRead, stepsDone,
                 callHistory>>

\* An awaited call rejects (the fetch, a search, redis, an LLM call, the JSON
\* parse of the ranking, writeDigest): nothing in the job catches it, the
\* run ends with the exception and its locals are gone.
Throw(r) ==
  /\ pc[r] \in AwaitPoints
  /\ pc' = [pc EXCEPT ![r] = "failed"]
  /\ searching' = [searching EXCEPT ![r] = <<>>]
  /\ searchResults' = [searchResults EXCEPT ![r] = <<>>]
  /\ candidates' = [candidates EXCEPT ![r] = <<>>]
  /\ preferences' = [preferences EXCEPT ![r] = <<>>]
  /\ existingProfile' = [existingProfile EXCEPT ![r] = Undefined]
  /\ profile' = [profile EXCEPT ![r] = Undefined]
  /\ userProfile' = [userProfile EXCEPT ![r] = Undefined]
  /\ rankedCandidates' = [rankedCandidates EXCEPT ![r] = <<>>]
  /\ selections' = [selections EXCEPT ![r] = <<>>]
  /\ digest' = [digest EXCEPT ![r] = <<>>]
  /\ UNCHANGED <<envVars, digestDefinition, cache, digests, jobData, fetched,
                 defsRead, stepsDone, callHistory>>

\* Line 317 resumes with the parsed definition d and assigns the module
\* variable; getCandidatesList then reads digestDefinition.candidateSelectors
\* and awaits its searches.
FetchDigestDefinitionDone(r, d) ==
  /\ pc[r] = "fetchDigestDefinition"
  /\ digestDefinition' = d
  /\ fetched' = [fetched EXCEPT ![r] = d]
  /\ defsRead' = [defsRead EXCEPT ![r] = @ \cup {d}]
  /\ stepsDone' = [stepsDone EXCEPT ![r] = @ \cup {"fetchDigestDefinition"}]
  /\ searching' = [searching EXCEPT ![r] = DigestDefinitions[d].candidateSelectors]
  /\ pc' = [pc EXCEPT ![r] = "getCandidatesList"]
  /\ UNCHANGED <<envVars, cache, digests, jobData, searchResults, candidates,
                 preferences, profileVars, rankVars, callHistory>>

\* The candidate searches answer from the library, and getCandidatesList
\* returns; findOrCreateUserProfile then sends its GET.
GetCandidatesListDone(r, library) ==
  /\ pc[r] = "getCandidatesList"
  /\ LET results == SearchAll(searching[r], library, TRUE)
     IN /\ searchResults' = [searchResults EXCEPT ![r] = results]
        /\ candidates' = [candidates EXCEPT ![r] = GetCandidatesList(results)]
  /\ searching' = [searching EXCEPT ![r] = <<>>]
  /\ stepsDone' = [stepsDone EXCEPT ![r] = @ \cup {"getCandidatesList"}]
  /\ pc' = [pc EXCEPT ![r] = "redisGet"]
  /\ UNCHANGED <<envVars, digestDefinition, cache, digests, jobData,
                 preferences, profileVars, rankVars, fetched, defsRead,
                 callHistory>>

\* redis executes the GET (with no redisClient, `?.` yields undefined).
RedisGet(r) ==
  /\ pc[r] = "redisGet"
  /\ existingProfile' = [existingProfile EXCEPT ![r] =
       IF redisClient THEN cache[jobData[r].userId] ELSE Undefined]
  /\ profileOps' = [profileOps EXCEPT ![r] = @ \cup {"get"}]
  /\ sequential' = [sequential EXCEPT ![r] = settled[jobData[r].userId]]
  /\ pc' = [pc EXCEPT ![r] = "redisGot"]
  /\ UNCHANGED <<envVars, digestDefinition, cache, digests, jobData,
                 searchVars, profile, userProfile, rankVars, fetched, defsRead,
                 stepsDone, settled, lastWrite>>

\* Line 173 with a truthy existingProfile: the call returns it, and
\* rankCandidates reads digestDefinition.zeroShot.rankPrompt and awaits the LLM.
ProfileCacheHit(r) ==
  /\ pc[r] = "redisGot"
  /\ Truthy(existingProfile[r])
  /\ userProfile' = [userProfile EXCEPT ![r] = existingProfile[r]]
  /\ settled' = [settled EXCEPT ![jobData[r].userId] = TRUE]
  /\ stepsDone' = [stepsDone EXCEPT ![r] = @ \cup {"findOrCreateUserProfile"}]
  /\ defsRead' = [defsRead EXCEPT ![r] = @ \cup {digestDefinition}]
  /\ pc' = [pc EXCEPT ![r] = "rankCandidates"]
  /\ UNCHANGED <<envVars, digestDefinition, cache, digests, jobData,
                 searchVars, existingProfile, profile, rankVars, fetched,
                 profileOps, sequential, lastWrite>>

\* Line 173 with a falsy existingProfile: getPreferencesList reads
\* digestDefinition.preferenceSelectors and awaits its searches.
ProfileCacheMiss(r) ==
  /\ pc[r] = "redisGot"
  /\ ~Truthy(existingProfile[r])
  /\ defsRead' = [defsRead EXCEPT ![r] = @ \cup {digestDefinition}]
  /\ profileOps' = [profileOps EXCEPT ![r] = @ \cup {"search"}]
  /\ searching' = [searching EXCEPT ![r] =
       DigestDefinitions[digestDefinition].preferenceSelectors]
  /\ pc' = [pc EXCEPT ![r] = "getPreferencesList"]
  /\ UNCHANGED <<envVars, digestDefinition, cache, digests, jobData,
                 searchResults, candidates, preferences, profileVars, rankVars, fetched, stepsDone,
                 settled, sequential, lastWrite>>

\* The preference searches answer, and getPreferencesList returns;
\* createUserProfile then reads
\* digestDefinition.zeroShot.userPreferencesProfilePrompt and awaits the LLM.
GetPreferencesListDone(r, library) ==
  /\ pc[r] = "getPreferencesList"
  /\ LET results == SearchAll(searching[r], library, FALSE)
     IN /\ searchResults' = [searchResults EXCEPT ![r] = results]
        /\ preferences' = [preferences EXCEPT ![r] = GetPreferencesList(results)]
  /\ searching' = [searching EXCEPT ![r] = <<>>]
  /\ defsRead' = [defsRead EXCEPT ![r] = @ \cup {digestDefinition}]
  /\ profileOps' = [profileOps EXCEPT ![r] = @ \cup {"llm"}]
  /\ pc' = [pc EXCEPT ![r] = "createUserProfile"]
  /\ UNCHANGED <<envVars, digestDefinition, cache, digests, jobData,
                 candidates, profileVars, rankVars, fetched, stepsDone,
                 settled, sequential, lastWrite>>

\* The profile LLM answers with text; line 182 sends the SET.
CreateUserProfileDone(r, text) ==
  /\ pc[r] = "createUserProfile"
  /\ profile' = [profile EXCEPT ![r] = text]
  /\ profileOps' = [profileOps EXCEPT ![r] = @ \cup {"set"}]
  /\ pc' = [pc EXCEPT ![r] = "redisSet"]
  /\ UNCHANGED <<envVars, digestDefinition, cache, digests, jobData,
                 searchVars, existingProfile, userProfile, rankVars, fetched,
                 defsRead, stepsDone, settled, sequential, lastWrite>>

\* SET key value only if the key holds nothing: not what the code sends.
RedisSetIfAbsent(r) ==
  LET userId == jobData[r].userId
  IN /\ pc[r] = "redisSet"
     /\ cache' = IF redisClient /\ cache[userId] = Null
                 THEN [cache EXCEPT ![userId] = profile[r]] ELSE cache
     /\ lastWrite' = IF redisClient
                     THEN [lastWrite EXCEPT ![userId] =
                             <<[run |-> r, text |-> profile[r]]>>]
                     ELSE lastWrite
     /\ settled' = IF redisClient THEN [settled EXCEPT ![userId] = FALSE]
                   ELSE settled
     /\ pc' = [pc EXCEPT ![r] = "redisSetDone"]
     /\ UNCHANGED <<envVars, digestDefinition, digests, jobData, searchVars,
                    profileVars, rankVars, fetched, defsRead, stepsDone,
                    profileOps, sequential>>

\* redis executes the SET: the key now holds this run's profile, whatever
\* it held (with no redisClient nothing is sent).
RedisSet(r) ==
  LET userId == jobData[r].userId
  IN /\ pc[r] = "redisSet"
     /\ cache' = IF redisClient THEN [cache EXCEPT ![userId] = profile[r]]
                 ELSE cache
     /\ lastWrite' = IF redisClient
                     THEN [lastWrite EXCEPT ![userId] =
                             <<[run |-> r, text |-> profile[r]]>>]
                     ELSE lastWrite
     /\ settled' = IF redisClient THEN [settled EXCEPT ![userId] = FALSE]
                   ELSE settled
     /\ pc' = [pc EXCEPT ![r] = "redisSetDone"]
     /\ UNCHANGED <<envVars, digestDefinition, digests, jobData, searchVars,
                    profileVars, rankVars, fetched, defsRead, stepsDone,
                    profileOps, sequential>>

\* Line 184: the call returns the profile it computed, and the search
\* results and preferences it held are gone; rankCandidates reads
\* digestDefinition.zeroShot.rankPrompt and awaits the LLM.
ProfileCreated(r) ==
  /\ pc[r] = "redisSetDone"
  /\ userProfile' = [userProfile EXCEPT ![r] = profile[r]]
  /\ searchResults' = [searchResults EXCEPT ![r] = <<>>]
  /\ preferences' = [preferences EXCEPT ![r] = <<>>]
  /\ settled' = [settled EXCEPT ![jobData[r].userId] = TRUE]
  /\ stepsDone' = [stepsDone EXCEPT ![r] = @ \cup {"findOrCreateUserProfile"}]
  /\ defsRead' = [defsRead EXCEPT ![r] = @ \cup {digestDefinition}]
  /\ pc' = [pc EXCEPT ![r] = "rankCandidates"]
  /\ UNCHANGED <<envVars, digestDefinition, cache, digests, jobData,
                 searching, candidates, existingProfile, profile, rankVars,
                 fetched, profileOps, sequential, lastWrite>>

\* The ranking LLM's JSON parses to ranked; chooseRankedSelections runs, and
\* summarizeItems reads digestDefinition.summaryPrompt and awaits the batch.
RankCandidatesDone(r, ranked) ==
  /\ pc[r] = "rankCandidates"
  /\ rankedCandidates' = [rankedCandidates EXCEPT ![r] = ranked]
  /\ selections' = [selections EXCEPT ![r] = ChooseRankedSelections(ranked)]
  /\ stepsDone' = [stepsDone EXCEPT ![r] =
       @ \cup {"rankCandidates", "chooseRankedSelections"}]
  /\ defsRead' = [defsRead EXCEPT ![r] = @ \cup {digestDefinition}]
  /\ pc' = [pc EXCEPT ![r] = "summarizeItems"]
  /\ UNCHANGED <<envVars, digestDefinition, cache, digests, jobData,
                 searchVars, profileVars, digest, fetched, callHistory>>

\* The batch answers with one summary per selected item, in order; the
\* summaries are assigned, filtered and spoken, the digest is built and
\* handed to writeDigest.
SummarizeItemsDone(r, summaries) ==
  /\ pc[r] = "summarizeItems"
  /\ ~AssignSummaries(selections[r], summaries).threw
  /\ LET summarized == AssignSummaries(selections[r], summaries).rankedCandidates
     IN /\ selections' = [selections EXCEPT ![r] = summarized]
        /\ rankedCandidates' = [rankedCandidates EXCEPT ![r] =
             Aliased(@, summarized)]
        /\ digest' = [digest EXCEPT ![r] = <<BuildDigest(r, summarized)>>]
  /\ stepsDone' = [stepsDone EXCEPT ![r] =
       @ \cup {"summarizeItems", "filterSummaries", "generateSpeechFiles"}]
  /\ pc' = [pc EXCEPT ![r] = "writeDigest"]
  /\ UNCHANGED <<envVars, digestDefinition, cache, digests, jobData,
                 searchVars, profileVars, fetched, defsRead, callHistory>>

\* The batch answers with more summaries than items: the forEach of
\* summarizeItems throws, and so does the run.
SummarizeItemsThrows(r, summaries) ==
  /\ pc[r] = "summarizeItems"
  /\ AssignSummaries(selections[r], summaries).threw
  /\ pc' = [pc EXCEPT ![r] = "failed"]
  /\ searching' = [searching EXCEPT ![r] = <<>>]
  /\ searchResults' = [searchResults EXCEPT ![r] = <<>>]
  /\ candidates' = [candidates EXCEPT ![r] = <<>>]
  /\ preferences' = [preferences EXCEPT ![r] = <<>>]
  /\ existingProfile' = [existingProfile EXCEPT ![r] = Undefined]
  /\ profile' = [profile EXCEPT ![r] = Undefined]
  /\ userProfile' = [userProfile EXCEPT ![r] = Undefined]
  /\ rankedCandidates' = [rankedCandidates EXCEPT ![r] = <<>>]
  /\ selections' = [selections EXCEPT ![r] = <<>>]
  /\ digest' = [digest EXCEPT ![r] = <<>>]
  /\ UNCHANGED <<envVars, digestDefinition, cache, digests, jobData, fetched,
                 defsRead, stepsDone, callHistory>>

\* The speech error is swallowed and the digest written without speech
\* files: not what the code does.
SpeechErrorSwallowed(r, summaries) ==
  /\ pc[r] = "summarizeItems"
  /\ ~AssignSummaries(selections[r], summaries).threw
  /\ LET summarized == AssignSummaries(selections[r], summaries).rankedCandidates
     IN /\ FilterSummaries(summarized) /= <<>>
        /\ selections' = [selections EXCEPT ![r] = summarized]
        /\ rankedCandidates' = [rankedCandidates EXCEPT ![r] =
             Aliased(@, summarized)]
        /\ digest' = [digest EXCEPT ![r] =
             <<[BuildDigest(r, summarized) EXCEPT !.speechFiles = <<>>]>>]
  /\ stepsDone' = [stepsDone EXCEPT ![r] =
       @ \cup {"summarizeItems", "filterSummaries"}]
  /\ pc' = [pc EXCEPT ![r] = "writeDigest"]
  /\ UNCHANGED <<envVars, digestDefinition, cache, digests, jobData,
                 searchVars, profileVars, fetched, defsRead, callHistory>>

\* The batch answers, but htmlToSpeechFile throws on one of the filtered
\* summaries: generateSpeechFiles throws, and so does the run.
GenerateSpeechFilesThrows(r, summaries) ==
  /\ pc[r] = "summarizeItems"
  /\ ~AssignSummaries(selections[r], summaries).threw
  /\ LET summarized == AssignSummaries(selections[r], summaries).rankedCandidates
     IN FilterSummaries(summarized) /= <<>>
  /\ stepsDone' = [stepsDone EXCEPT ![r] =
       @ \cup {"summarizeItems", "filterSummaries"}]
  /\ pc' = [pc EXCEPT ![r] = "failed"]
  /\ searching' = [searching EXCEPT ![r] = <<>>]
  /\ searchResults' = [searchResults EXCEPT ![r] = <<>>]
  /\ candidates' = [candidates EXCEPT ![r] = <<>>]
  /\ preferences' = [preferences EXCEPT ![r] = <<>>]
  /\ existingProfile' = [existingProfile EXCEPT ![r] = Undefined]
  /\ profile' = [profile EXCEPT ![r] = Undefined]
  /\ userProfile' = [userProfile EXCEPT ![r] = Undefined]
  /\ rankedCandidates' = [rankedCandidates EXCEPT ![r] = <<>>]
  /\ selections' = [selections EXCEPT ![r] = <<>>]
  /\ digest' = [digest EXCEPT ![r] = <<>>]
  /\ UNCHANGED <<envVars, digestDefinition, cache, digests, jobData, fetched,
                 defsRead, callHistory>>

\* writeDigest stores the digest under the user id and the run ends.
WriteDigestDone(r) ==
  /\ pc[r] = "writeDigest"
  /\ digests' = Append(digests, [userId |-> jobData[r].userId,
                                 digest |-> digest[r][1]])
  /\ pc' = [pc EXCEPT ![r] = "done"]
  /\ UNCHANGED <<envVars, digestDefinition, cache, jobData, searchVars,
                 profileVars, rankVars, fetched, defsRead, stepsDone,
                 callHistory>>

\* ------------------------------------------------------------------- inputs

\* One item of the ranking LLM's reply; ref is the object's identity.
RankedItem(ref, topic, title) ==
  [ref |-> ref, topic |-> topic, summary |-> <<>>,
   libraryItem |-> [title |-> title]]

\* A text of n characters that starts with c.
Text(c, n) == [i \in 1..n |-> IF i = 1 THEN c ELSE "x"]

ProfileTexts == {"", "p1", "p2"}

JobLibraries ==
  {[q \in Queries |-> IF q = "q1" THEN <<LibraryItemOf(1), LibraryItemOf(2)>>
                      ELSE <<LibraryItemOf(2)>>]}
JobRankReplies == {<<>>, <<RankedItem(1, JsonString("A"), <<"t">>)>>}
JobSummaryTexts == {Text("a", MinSummaryLength + 1)}

\* One step of run r, with what the outside world can answer: the users
\* jobs are queued for, the versions of the definition file, the states of
\* the library, and the texts the LLM returns.
JobStep(r, users, defs, libraries, profiles, rankReplies, summaryTexts) ==
  \/ \E userId \in users : CreateDigestJob(r, userId)
  \/ Throw(r)
  \/ \E d \in defs : FetchDigestDefinitionDone(r, d)
  \/ /\ pc[r] = "getCandidatesList"
     /\ \E library \in libraries : GetCandidatesListDone(r, library)
  \/ RedisGet(r)
  \/ ProfileCacheHit(r)
  \/ ProfileCacheMiss(r)
  \/ /\ pc[r] = "getPreferencesList"
     /\ \E library \in libraries : GetPreferencesListDone(r, library)
  \/ \E text \in profiles : CreateUserProfileDone(r, text)
  \/ RedisSet(r)
  \/ ProfileCreated(r)
  \/ /\ pc[r] = "rankCandidates"
     /\ \E ranked \in rankReplies : RankCandidatesDone(r, ranked)
  \/ /\ pc[r] = "summarizeItems"
     /\ \E summaries \in [1..Len(selections[r]) -> summaryTexts] :
          SummarizeItemsDone(r, summaries)
  \/ /\ pc[r] = "summarizeItems"
     /\ \E summaries \in [1..Len(selections[r]) -> summaryTexts] :
          GenerateSpeechFilesThrows(r, summaries)
  \/ /\ pc[r] = "summarizeItems"
     /\ \E summaries \in [1..(Len(selections[r]) + 1) -> JobSummaryTexts] :
          SummarizeItemsThrows(r, summaries)
  \/ WriteDigestDone(r)

\* Several jobs in flight in one process.
Next ==
  \E r \in Runs :
    JobStep(r, Users, DefNames, JobLibraries, ProfileTexts, JobRankReplies,
            JobSummaryTexts)

Spec == Init /\ [][Next]_vars


\* Jobs in flight for one user, with one version of the definition file.
NextProfile ==
  \E r \in Runs :
    JobStep(r, {"u1"}, {"d1"}, JobLibraries, {"p1", "p2"}, JobRankReplies,
            JobSummaryTexts)

InitProfile == Init /\ promptFileUrl = TRUE /\ cache["u2"] = Null

SpecProfile == InitProfile /\ [][NextProfile]_vars

\* One job, configured, for a user whose key may hold an earlier profile.
InitOneJob ==
  Init /\ promptFileUrl = TRUE /\ redisClient = TRUE /\ cache["u2"] = Null

\* One job whose library can hold any items under the two queries.
NextSearch ==
  JobStep(1, {"u1"}, DefNames, Libraries(MaxItemId, MaxResults), {"p1"},
          JobRankReplies, JobSummaryTexts)

SpecSearch == InitOneJob /\ [][NextSearch]_vars

\* Run 1 awaits the ranking LLM: the job was queued for u1, fetched d1,
\* searched the job library, found no profile in redis, had "p1" from the
\* profile LLM and wrote it.
Ranking ==
  LET first(x, other) == [r \in Runs |-> IF r = 1 THEN x ELSE other]
      library == CHOOSE l \in JobLibraries : TRUE
  IN /\ promptFileUrl = TRUE
     /\ redisClient = TRUE
     /\ digestDefinition = "d1"
     /\ cache = [u \in Users |-> IF u = "u1" THEN "p1" ELSE Null]
     /\ digests = <<>>
     /\ pc = first("rankCandidates", "idle")
     /\ jobData = first([userId |-> "u1"], [userId |-> Undefined])
     /\ searching = first(<<>>, <<>>)
     /\ searchResults = first(<<>>, <<>>)
     /\ candidates =
          first(GetCandidatesList(
                  SearchAll(DigestDefinitions["d1"].candidateSelectors, library, TRUE)),
                <<>>)
     /\ existingProfile = first(Null, Undefined)
     /\ preferences = first(<<>>, <<>>)
     /\ profile = first("p1", Undefined)
     /\ userProfile = first("p1", Undefined)
     /\ rankedCandidates = first(<<>>, <<>>)
     /\ selections = first(<<>>, <<>>)
     /\ digest = first(<<>>, <<>>)
     /\ fetched = first("d1", Undefined)
     /\ defsRead = first({"d1"}, {})
     /\ stepsDone = first({"fetchDigestDefinition", "getCandidatesList",
                           "findOrCreateUserProfile"}, {})
     /\ profileOps = first({"get", "search", "llm", "set"}, {})
     /\ settled = [u \in Users |-> u = "u1"]
     /\ sequential = first(FALSE, FALSE)
     /\ lastWrite = [u \in Users |->
          IF u = "u1" THEN <<[run |-> 1, text |-> "p1"]>> ELSE <<>>]

\* The ranking LLM answers run 1 with any list of at most MaxRanked items
\* over these topics, and chooseRankedSelections selects from it.
SelectionTopics == {"A", "B", "C", "constructor"}

NextSelect ==
  /\ pc[1] = "rankCandidates"
  /\ \E n \in 0..MaxRanked : \E topics \in [1..n -> SelectionTopics] :
       RankCandidatesDone(1, [i \in 1..n |->
                                RankedItem(i, JsonString(topics[i]), <<"t">>)])

SpecSelect == Ranking /\ [][NextSelect]_vars

\* The ranking LLM answers run 1 with any list of at most MaxJsonRanked
\* items whose topics are numbers, the strings that spell them, null, true
\* or absent.
JsonTopics ==
  {JsonNumber(n) : n \in 1..MaxNumber}
    \cup {JsonString(ToString(n)) : n \in 1..MaxNumber}
    \cup {JsonNull, JsonAbsent, JsonBoolean(TRUE)}

NextSelectJson ==
  /\ pc[1] = "rankCandidates"
  /\ \E n \in 0..MaxJsonRanked : \E topics \in [1..n -> JsonTopics] :
       RankCandidatesDone(1, [i \in 1..n |-> RankedItem(i, topics[i], <<"t">>)])

SpecSelectJson == Ranking /\ [][NextSelectJson]_vars

\* The rest of run 1 from the ranking on, with an LLM that returns items
\* of different titles and summaries of 0, 100 and 101 characters, two
\* different ones of 101.
DigestTitles == {<<"a">>, <<"b", ",">>}
DigestSummaryTexts ==
  {<<>>, Text("s", MinSummaryLength), Text("l", MinSummaryLength + 1),
   Text("m", MinSummaryLength + 1)}

NextDigest ==
  \/ /\ pc[1] = "rankCandidates"
     /\ \E n \in 0..MaxDigestItems :
          \E f \in [1..n -> {"A", "B"} \X DigestTitles] :
            RankCandidatesDone(1, [i \in 1..n |->
                                     RankedItem(i, JsonString(f[i][1]), f[i][2])])
  \/ /\ pc[1] = "summarizeItems"
     /\ \E summaries \in [1..Len(selections[1]) -> DigestSummaryTexts] :
          SummarizeItemsDone(1, summaries)
  \/ /\ pc[1] = "summarizeItems"
     /\ \E summaries \in [1..Len(selections[1]) -> DigestSummaryTexts] :
          GenerateSpeechFilesThrows(1, summaries)
  \/ /\ pc[1] = "summarizeItems"
     /\ \E summaries \in [1..(Len(selections[1]) + 1) -> JobSummaryTexts] :
          SummarizeItemsThrows(1, summaries)
  \/ WriteDigestDone(1)
  \/ Throw(1)

SpecDigest == Ranking /\ [][NextDigest]_vars

\* --------------------------------------------------------------- properties

Topics(items) == [i \in 1..Len(items) |-> items[i].topic]

\* chooseRankedSelections has returned in run r, and the run holds its result.
Selected(r) == "chooseRankedSelections" \in stepsDone[r] /\ pc[r] /= "failed"

\* The digests run r has written.
WrittenBy(r) == {k \in 1..Len(digests) : digests[k].digest.id = r}

\* C1 as stated: whatever list the ranking returned, and whatever its topic
\* labels are, the selection holds at most 5 items and at most 2 items of
\* any one topic.
C1_SelectionBounded ==
  \A r \in Runs :
    /\ Len(selections[r]) <= 5
    /\ \A t \in {selections[r][i].topic : i \in 1..Len(selections[r])} :
         Cardinality({i \in 1..Len(selections[r]) : selections[r][i].topic = t}) <= 2

ExampleTopics ==
  [i \in 1..7 |-> JsonString(<<"A", "A", "A", "B", "A", "C", "B">>[i])]

\* C2 as stated: the ranking with topics [A,A,A,B,A,C,B] is selected to
\* items with topics [A,A,B,B].
C2_ExampleAsStated ==
  \A r \in Runs :
    Selected(r) /\ Topics(rankedCandidates[r]) = ExampleTopics
      => Topics(selections[r]) =
           [i \in 1..4 |-> JsonString(<<"A", "A", "B", "B">>[i])]

\* C2 amended: the ranking with topics [A,A,A,B,A,C,B] is selected to the
\* items ranked 1, 2, 4, 7 and 6, whose topics are [A,A,B,B,C].
C2_ExampleSelection ==
  \A r \in Runs :
    Selected(r) /\ Topics(rankedCandidates[r]) = ExampleTopics
      => /\ Topics(selections[r]) =
              [i \in 1..5 |-> JsonString(<<"A", "A", "B", "B", "C">>[i])]
         /\ [i \in 1..Len(selections[r]) |-> selections[r][i].ref]
              = <<1, 2, 4, 7, 6>>

\* The example ranking has been selected from.
C2_Witness ==
  \E r \in Runs :
    Selected(r) /\ Topics(rankedCandidates[r]) = ExampleTopics

\* C3 as stated: the selection is grouped by topic: the items of one topic are
\* adjacent, the groups are in the order in which their first items were
\* ranked, and the items of a group are in rank order.  Every selected item
\* is one item of the ranking.
C3_GroupedByTopic ==
  \A r \in Runs :
    Selected(r) =>
      LET in == rankedCandidates[r]
          out == selections[r]
          FirstIncluded(t) ==
            CHOOSE ref \in {out[k].ref : k \in {n \in 1..Len(out) : out[n].topic = t}} :
              \A k \in 1..Len(out) : out[k].topic = t => ref <= out[k].ref
      IN /\ \A i \in 1..Len(out) :
              /\ out[i].ref \in 1..Len(in)
              /\ in[out[i].ref].topic = out[i].topic
         /\ \A i, j \in 1..Len(out) : i /= j => out[i].ref /= out[j].ref
         /\ \A i, j, k \in 1..Len(out) :
              i < j /\ j < k /\ out[i].topic = out[k].topic
                => out[j].topic = out[i].topic
         /\ \A i, j \in 1..Len(out) :
              i < j /\ out[i].topic /= out[j].topic
                => FirstIncluded(out[i].topic) < FirstIncluded(out[j].topic)
         /\ \A i, j \in 1..Len(out) :
              i < j /\ out[i].topic = out[j].topic => out[i].ref < out[j].ref

\* C4 as stated, where there is a redis client: a call whose GET ran after
\* a call for the same user had returned, with no SET of the key in
\* between, does nothing but that GET: no search, no LLM call, no SET.
C4_SecondCallReadsCacheOnly ==
  \A r \in Runs :
    redisClient /\ sequential[r] => profileOps[r] \subseteq {"get"}

\* C5 as stated: every read of digestDefinition by a run sees the
\* definition that run fetched.
C5_DefinitionFixedForRun ==
  \A r \in Runs : defsRead[r] \subseteq {fetched[r]}

\* C6: a run writes at most one digest, a "completed" one, and only once
\* every step before writeDigest has returned; a run that ended with an
\* exception has written none.
C6_AllOrNothing ==
  /\ \A k \in 1..Len(digests) :
       /\ digests[k].digest.id \in Runs
       /\ digests[k].digest.jobState = "completed"
       /\ stepsDone[digests[k].digest.id] = AllSteps
       /\ pc[digests[k].digest.id] = "done"
  /\ \A r \in Runs :
       /\ Cardinality(WrittenBy(r)) <= 1
       /\ pc[r] = "failed" => WrittenBy(r) = {}
       /\ pc[r] = "done" => Cardinality(WrittenBy(r)) = 1

\* One run has written its digest, and another has failed in speech
\* generation, after its summaries arrived, and written nothing.
C6_Witness ==
  \E r, q \in Runs :
    /\ pc[r] = "done"
    /\ Cardinality(WrittenBy(r)) = 1
    /\ pc[q] = "failed"
    /\ "summarizeItems" \in stepsDone[q]
    /\ WrittenBy(q) = {}

\* C7: the lists getCandidatesList and getPreferencesList return hold each
\* item id at most once, and hold every id the searches returned.
C7_MergedIdsUnique ==
  \A r \in Runs :
    /\ \A i, j \in 1..Len(candidates[r]) :
         i /= j => candidates[r][i].id /= candidates[r][j].id
    /\ \A i, j \in 1..Len(preferences[r]) :
         i /= j => preferences[r][i].id /= preferences[r][j].id
    /\ pc[r] = "redisGet" =>
         {candidates[r][i].id : i \in 1..Len(candidates[r])}
           = {x.id : x \in UNION {{res[i] : i \in 1..Len(res)} :
                                    res \in {searchResults[r][k] :
                                               k \in 1..Len(searchResults[r])}}}

\* The candidate searches returned an item twice within one selector and
\* an item under two selectors, and the merged list holds the two ids found.
C7_Witness ==
  \E r \in Runs :
    /\ pc[r] = "redisGet"
    /\ \E k \in 1..Len(searchResults[r]) :
         \E i, j \in 1..Len(searchResults[r][k]) :
           i /= j /\ searchResults[r][k][i].id = searchResults[r][k][j].id
    /\ \E k, l \in 1..Len(searchResults[r]) :
         /\ k /= l
         /\ \E i \in 1..Len(searchResults[r][k]) :
              \E j \in 1..Len(searchResults[r][l]) :
                searchResults[r][k][i].id = searchResults[r][l][j].id
    /\ Len(Flat(searchResults[r])) >= 4
    /\ Len(candidates[r]) = 2

\* The positions of the summarized selection whose summary is longer than
\* 100 characters.
LongSummaries(summaries) ==
  {i \in 1..Len(summaries) : Len(summaries[i].summary) > 100}

\* C8: a written digest holds one speech file per selected item whose
\* summary is longer than 100 characters, in selection order, and none for
\* the other items.
C8_SpeechFilePerLongSummary ==
  \A k \in 1..Len(digests) :
    LET d == digests[k].digest
        summaries == selections[d.id]
        long == LongSummaries(summaries)
        Nth(n) == CHOOSE i \in long : Cardinality({j \in long : j <= i}) = n
    IN /\ Len(d.speechFiles) = Cardinality(long)
       /\ \A n \in 1..Len(d.speechFiles) :
            d.speechFiles[n] = HtmlToSpeechFile(MakeHtml(summaries[Nth(n)].summary))

\* A written digest whose selection held a summary of exactly 100
\* characters before one of 101, and so one speech file for two items.
C8_Witness ==
  \E k \in 1..Len(digests) :
    LET summaries == selections[digests[k].digest.id]
    IN /\ \E i, j \in 1..Len(summaries) :
            /\ i < j
            /\ Len(summaries[i].summary) = 100
            /\ Len(summaries[j].summary) = 101
       /\ Len(digests[k].digest.speechFiles) = 1

RECURSIVE TitleStart(_, _)
\* Where the i-th title starts in the digest title: after the prefix, the
\* titles before it and one comma for each of them.
TitleStart(titles, i) ==
  IF i = 1 THEN Len(TitlePrefix) + 1
  ELSE TitleStart(titles, i - 1) + Len(titles[i - 1]) + 1

\* C9: the title of a written digest is 'Omnivore digest: ' followed by the
\* titles of all summarized items, filtered out or not, in selection order
\* with a comma between two of them.
C9_TitleFromUnfiltered ==
  \A k \in 1..Len(digests) :
    LET d == digests[k].digest
        summaries == selections[d.id]
        n == Len(summaries)
        titles == [i \in 1..n |-> summaries[i].libraryItem.title]
        end == IF n = 0 THEN Len(TitlePrefix)
               ELSE TitleStart(titles, n) + Len(titles[n]) - 1
    IN /\ SubSeq(d.title, 1, 17) =
            <<"O", "m", "n", "i", "v", "o", "r", "e", " ",
              "d", "i", "g", "e", "s", "t", ":", " ">>
       /\ Len(d.title) = end
       /\ \A i \in 1..n :
            SubSeq(d.title, TitleStart(titles, i),
                   TitleStart(titles, i) + Len(titles[i]) - 1) = titles[i]
       /\ \A i \in 1..(n - 1) :
            d.title[TitleStart(titles, i) + Len(titles[i])] = ","

\* A written digest of two items with different titles, the first of which
\* the length filter dropped.
C9_Witness ==
  \E k \in 1..Len(digests) :
    LET d == digests[k].digest
        summaries == selections[d.id]
    IN /\ Len(summaries) = 2
       /\ summaries[1].libraryItem.title /= summaries[2].libraryItem.title
       /\ Len(summaries[1].summary) <= 100
       /\ Len(summaries[2].summary) > 100
       /\ Len(d.speechFiles) = 1

\* The miss path of findOrCreateUserProfile has run to its return in run r.
Created(r) ==
  /\ profileOps[r] = {"get", "search", "llm", "set"}
  /\ pc[r] \in {"rankCandidates", "summarizeItems", "writeDigest", "done"}

\* C10: calls that miss are not coordinated: each returns the profile it
\* computed itself, and the key holds the text of the SET redis executed
\* last, whoever sent it.
C10_LastWriteWins ==
  /\ \A r \in Runs : Created(r) => userProfile[r] = profile[r]
  /\ \A u \in Users :
       /\ lastWrite[u] /= <<>> => cache[u] = lastWrite[u][1].text
       /\ lastWrite[u] = <<>> => cache[u] \in {Null, "p0"}

\* Two runs for one user both read the key as absent, both had a profile
\* from the LLM, different ones, both wrote it and returned their own; the
\* key holds the profile of the run that wrote last.
C10_Witness ==
  \E r, q \in Runs :
    /\ r /= q
    /\ jobData[r].userId = jobData[q].userId
    /\ existingProfile[r] = Null /\ existingProfile[q] = Null
    /\ Created(r) /\ Created(q)
    /\ profile[r] /= profile[q]
    /\ userProfile[r] = profile[r] /\ userProfile[q] = profile[q]
    /\ lastWrite[jobData[r].userId] /= <<>>
    /\ lastWrite[jobData[r].userId][1].run = q
    /\ cache[jobData[r].userId] = profile[q]

====
